---- MODULE Spec2Model ----
(***************************************************************************)
(* Notes client: the HTTP client of apiClient.js (candidate paths, response *)
(* interpretation) and the state controller of the App component           *)
(* (collection, selection, draft, dirty flag, busy flags, messages).       *)
(*                                                                         *)
(* Rendering model: React 18 with automatic batching.  Every state update  *)
(* a handler (or the continuation of a handler after an await) makes in    *)
(* one synchronous run is applied in one render; the passive effect on     *)
(* [selectedNote] runs after that render and before the next event, so an  *)
(* action below is the handler run followed by that effect.  A handler     *)
(* reads the state of the render it was created in: values read after an   *)
(* await are the values captured when the handler started, except inside   *)
(* functional updates (setNotes(prev => ...)), which read current state.   *)
(***************************************************************************)
EXTENDS Integers, Sequences, FiniteSets, Bags, TLC

VARIABLES
    notes,          \* useState([]): the in-memory collection, in stored order
    sortedNotes,    \* useMemo over [notes]: the sorted view the list shows
    selectedId,     \* useState(null)
    editorTitle,    \* useState("")
    editorContent,  \* useState("")
    isDirty,        \* useState(false)
    isLoading,      \* useState(true)
    isSaving,       \* useState(false)
    isDeleting,     \* useState(false)
    error,          \* useState("")
    info,           \* useState("")
    ops,            \* bag of handler runs suspended at an await of the API client
    lastEvent,      \* history: the last user event or settled operation
    call            \* the API client call observed on its own (ApiSpec)

vars == <<notes, sortedNotes, selectedId, editorTitle, editorContent, isDirty, isLoading,
          isSaving, isDeleting, error, info, ops, lastEvent, call>>

ctl == <<notes, sortedNotes, selectedId, editorTitle, editorContent, isDirty, isLoading,
         isSaving, isDeleting, error, info, ops, lastEvent>>

-----------------------------------------------------------------------------
(* Bounds of the model *)

\* longest list a list response carries, and the longest collection a create grows
MaxNotes == 2
\* handler runs suspended at the same time
MaxInFlight == 2

-----------------------------------------------------------------------------
(* Values *)

\* An id is a number or a string; str is its String(...) form.
NumId(s) == [kind |-> "num", str |-> s]
StrId(s) == [kind |-> "str", str |-> s]
NullId == [kind |-> "null", str |-> "null"]

\* String(id)
Str(id) == id.str

\* !id : null, 0 and "" are falsy
Falsy(id) == \/ id = NullId
             \/ (id.kind = "num" /\ id.str = "0")
             \/ (id.kind = "str" /\ id.str = "")

\* Text is a sequence of characters.
Untitled == <<"U", "n", "t", "i", "t", "l", "e", "d">>
EmptyText == <<>>
IsSpace(c) == c = " "

RECURSIVE TrimLeft(_)
TrimLeft(s) == IF s # <<>> /\ IsSpace(Head(s)) THEN TrimLeft(Tail(s)) ELSE s

RECURSIVE TrimRight(_)
TrimRight(s) == IF s # <<>> /\ IsSpace(s[Len(s)])
                THEN TrimRight(SubSeq(s, 1, Len(s) - 1)) ELSE s

\* String.prototype.trim
Trim(s) == TrimRight(TrimLeft(s))

\* A timestamp as the wire carries it; NullTs is null.
NullTs == [kind |-> "null", ms |-> 0]
Ts(n) == [kind |-> "num", ms |-> n]
\* a string new Date() cannot parse
BadTs == [kind |-> "bad", ms |-> 0]

\* JSON values a response body parses to
JNull == [t |-> "null"]
JArr(s) == [t |-> "arr", v |-> s]
JObj(r) == [t |-> "obj", v |-> r]

\* raw?.k with null and undefined alike as "absent"
Has(raw, k) == k \in DOMAIN raw

-----------------------------------------------------------------------------
(* App: normalizeNote *)

FirstId(raw) ==
    IF Has(raw, "id") /\ raw.id # NullId THEN raw.id
    ELSE IF Has(raw, "_id") /\ raw._id # NullId THEN raw._id
    ELSE IF Has(raw, "noteId") /\ raw.noteId # NullId THEN raw.noteId
    ELSE IF Has(raw, "uuid") /\ raw.uuid # NullId THEN raw.uuid
    ELSE NullId

normalizeNote(raw) ==
    [id |-> FirstId(raw),
     title |-> IF Has(raw, "title") THEN raw.title ELSE EmptyText,
     content |-> IF Has(raw, "content") THEN raw.content ELSE EmptyText,
     createdAt |-> IF Has(raw, "createdAt") THEN raw.createdAt
                   ELSE IF Has(raw, "created_at") THEN raw.created_at ELSE NullTs,
     updatedAt |-> IF Has(raw, "updatedAt") THEN raw.updatedAt
                   ELSE IF Has(raw, "updated_at") THEN raw.updated_at ELSE NullTs]

\* normalizeNote(x || {}) of a single-note response: null, or an object
normalizeResponse(j) ==
    IF j.t = "obj" THEN normalizeNote(j.v) ELSE normalizeNote([none |-> TRUE])

-----------------------------------------------------------------------------
(* apiClient.js *)

DEFAULT_TIMEOUT_MS == 15000

NOTES_BASE_CANDIDATES == <<"/notes", "/api/notes">>

\* What the network gives one request: fetch rejects (network failure, or the
\* abort at DEFAULT_TIMEOUT_MS), or an HTTP response arrives.
Reject(m) == [net |-> "reject", msg |-> m]
Http(st, js, b) == [net |-> "http", resp |-> [status |-> st, isJson |-> js, body |-> b]]

\* a body that is not JSON text: its characters
JText(s) == [t |-> "text", v |-> s]

StatusMessage(st, detail) ==
    IF detail
    THEN CASE st = 404 -> "Request failed (404): detail"
           [] st = 500 -> "Request failed (500): detail"
           [] OTHER -> "Request failed: detail"
    ELSE CASE st = 404 -> "Request failed (404)"
           [] st = 500 -> "Request failed (500)"
           [] OTHER -> "Request failed"

Returned(v) == [threw |-> FALSE, msg |-> "", value |-> v]
Threw(m) == [threw |-> TRUE, msg |-> m, value |-> JNull]

parseJsonOrThrow(response) ==
    LET ok == response.status >= 200 /\ response.status <= 299
        \* response.json() of a body that is not JSON text throws
        badJson == response.isJson /\ response.body.t = "text"
        \* detail: JSON.stringify(json) or the text; "" when reading it throws
        detail == ~badJson /\ response.body # JText(<<>>) /\ response.body # JNull
    IN  IF ~ok THEN Threw(StatusMessage(response.status, detail))
        ELSE IF response.status = 204 THEN Returned(JNull)
        ELSE IF response.isJson
             THEN IF badJson THEN Threw("Unexpected token") ELSE Returned(response.body)
        ELSE IF response.body.t = "text" /\ response.body.v # <<>>
             THEN Returned(JObj([raw |-> response.body.v]))
        ELSE Returned(JNull)

request(outcome) ==
    IF outcome.net = "reject" THEN Threw(outcome.msg)
    ELSE parseJsonOrThrow(outcome.resp)

NoBody == [title |-> EmptyText, content |-> EmptyText]

Method(fn) == CASE fn = "listNotes" -> "GET"
                [] fn = "createNote" -> "POST"
                [] fn = "updateNote" -> "PUT"
                [] fn = "deleteNote" -> "DELETE"

\* the request one attempt sends: method, candidate base, /encodeURIComponent(id)
RequestOf(fn, id, body, k) ==
    [method |-> Method(fn),
     base |-> NOTES_BASE_CANDIDATES[k],
     sub |-> IF fn \in {"updateNote", "deleteNote"} THEN Str(id) ELSE "",
     body |-> IF fn \in {"createNote", "updateNote"} THEN body ELSE NoBody]

\* A call of listNotes / createNote / updateNote / deleteNote at its first
\* request.  attempts and errs are the history of the call.
StartCall(fn, id, body) ==
    [fn |-> fn, id |-> id, body |-> body, cand |-> 1,
     attempts |-> <<RequestOf(fn, id, body, 1)>>, errs |-> <<>>,
     lastErr |-> "", status |-> "pending", result |-> JNull, thrown |-> ""]

\* listNotes: an array as is, {notes: [...]} gives notes, anything else []
listShape(data) ==
    IF data.t = "arr" THEN data
    ELSE IF data.t = "obj" /\ Has(data.v, "notes") THEN JArr(data.v.notes)
    ELSE JArr(<<>>)

\* the value the call returns for the value request gave
callResult(fn, data) == IF fn = "listNotes" THEN listShape(data) ELSE data

\* a client that throws what the first candidate failed with
thrownFirstError(c, e) == c.errs[1]

\* what is thrown once every candidate has failed
thrownError(c, e) == e

\* does the loop go on to another candidate after candidate k failed
hasNextCandidate(k) == k < Len(NOTES_BASE_CANDIDATES)

\* One iteration of the for loop over the candidates, on the outcome of the
\* request of candidate c.cand.
CallStep(c, outcome) ==
    LET r == request(outcome) IN
    IF ~r.threw
    THEN [c EXCEPT !.status = "returned", !.result = callResult(c.fn, r.value)]
    ELSE LET failed == [c EXCEPT !.lastErr = r.msg, !.errs = Append(@, r.msg)] IN
         IF hasNextCandidate(c.cand)
         THEN [failed EXCEPT !.cand = @ + 1,
                             !.attempts = Append(@, RequestOf(c.fn, c.id, c.body, c.cand + 1))]
         ELSE [failed EXCEPT !.status = "threw", !.thrown = thrownError(failed, r.msg)]

\* The whole for loop: the call on the outcomes of its requests in turn.
RECURSIVE RunCall(_, _)
RunCall(c, outcomes) ==
    IF c.status # "pending" \/ outcomes = <<>> THEN c
    ELSE RunCall(CallStep(c, Head(outcomes)), Tail(outcomes))

-----------------------------------------------------------------------------
(* The backend and the user: the inputs the model draws *)

\* ids of both types, the falsy 0, and two with the same string form
Ids == {NumId("0"), NumId("1"), StrId("1")}

\* records a list response carries: two aliases of the id, absent fields
RawNotes ==
    { [id |-> NumId("1"), title |-> Untitled, content |-> <<"x">>, updatedAt |-> Ts(2)],
      [noteId |-> NumId("0"), title |-> Untitled, created_at |-> Ts(1)] }

\* a record with none of the aliases of the id
RawWithoutId == [content |-> <<"x">>]

SeqsUpTo(S, n) == UNION {[1..k -> S] : k \in 0..n}

\* the backend keeps its ids unique: no two records of a list share an id
UniqueLists ==
    {l \in SeqsUpTo(RawNotes, MaxNotes) :
        \A i, j \in 1..Len(l) : i < j => Str(FirstId(l[i])) # Str(FirstId(l[j]))}

\* the lists of the backend, also with a record without id in front
ServerLists ==
    UniqueLists \cup {<<RawWithoutId>> \o l : l \in {u \in UniqueLists : Len(u) < MaxNotes}}

NoContent == Http(204, FALSE, JText(<<>>))

\* the two paths fail in their own way: no such path, or the server's error
FailuresAt(k) == IF k = 1 THEN {Http(404, FALSE, JText(<<>>))}
                 ELSE {Http(500, FALSE, JText(<<>>))}

ListAnswers == {Http(200, TRUE, JArr(l)) : l \in ServerLists}

\* a created note gets an id no note of the collection has
FreshIds(ns) == {i \in Ids : \A k \in 1..Len(ns) : Str(ns[k].id) # Str(i)}

CreateAnswers(ns, body) ==
    {Http(200, TRUE, JObj([_id |-> i, title |-> body.title])) :
        i \in IF Len(ns) < MaxNotes THEN FreshIds(ns) ELSE {}}
    \cup {NoContent}

UpdateAnswers(body) ==
    {Http(200, TRUE, JObj([id |-> i, title |-> body.title, content |-> body.content])) :
        i \in Ids}
    \cup {NoContent}

DeleteAnswers == {NoContent}

\* the responses of a backend that serves the request
AnswersFor(c, ns) ==
    CASE c.fn = "listNotes" -> ListAnswers
      [] c.fn = "createNote" -> CreateAnswers(ns, c.body)
      [] c.fn = "updateNote" -> UpdateAnswers(c.body)
      [] c.fn = "deleteNote" -> DeleteAnswers

\* what the network gives the requests of one call, candidate by candidate,
\* until one is served or all have failed
OutcomesFor(c, ns) ==
    {<<a>> : a \in AnswersFor(c, ns)}
    \cup {<<f, a>> : f \in FailuresAt(1), a \in AnswersFor(c, ns) \cup FailuresAt(2)}

\* what the user types
TypedTitles == {<<" ">>, Untitled}
TypedContents == {<<"x">>}

-----------------------------------------------------------------------------
(* App: derived values *)

Matches(ns, sid) == {i \in 1..Len(ns) : Str(ns[i].id) = Str(sid)}

\* index of notes.find((n) => String(n.id) === String(selectedId)); 0 is "|| null"
findIdx(ns, sid) ==
    IF Matches(ns, sid) = {} THEN 0
    ELSE CHOOSE i \in Matches(ns, sid) : \A j \in Matches(ns, sid) : i <= j

hasSelectedNote == findIdx(notes, selectedId) # 0
selectedNote == notes[findIdx(notes, selectedId)]

disableActions == isLoading \/ isSaving \/ isDeleting

\* e?.message || fallback
messageOr(m, fallback) == IF m = "" THEN fallback ELSE m

\* normalized[0]?.id ?? null
firstIdOrNull(ns) == IF Len(ns) > 0 THEN ns[1].id ELSE NullId

\* The effect on [selectedNote]: load the selected note into the editor.
effectState(ns, sid, st) ==
    LET k == findIdx(ns, sid) IN
    [st EXCEPT !.info = "", !.error = "",
               !.title = IF k = 0 THEN EmptyText ELSE ns[k].title,
               !.content = IF k = 0 THEN EmptyText ELSE ns[k].content,
               !.dirty = FALSE]

\* the draft and the messages of the current state
editorState == [title |-> editorTitle, content |-> editorContent, dirty |-> isDirty,
                error |-> error, info |-> info]

\* a.updatedAt || a.createdAt || 0: null, 0 and "" are passed over
truthyTs(ts) == ts.kind = "bad" \/ (ts.kind = "num" /\ ts.ms # 0)

\* new Date(a.updatedAt || a.createdAt || 0).getTime(): a number, or NaN
timeOf(n) ==
    LET e == IF truthyTs(n.updatedAt) THEN n.updatedAt
             ELSE IF truthyTs(n.createdAt) THEN n.createdAt ELSE Ts(0)
    IN  [nan |-> e.kind = "bad", ms |-> e.ms]

\* the characters of the titles in the order of the collation: the space
\* first, then the letters by the alphabet, whatever their case
Collation == <<" ", "a", "B", "d", "e", "i", "l", "n", "t", "U", "x">>
weight(c) == CHOOSE k \in 1..Len(Collation) : Collation[k] = c

\* the sign of s.localeCompare(t)
RECURSIVE localeCompare(_, _)
localeCompare(s, t) ==
    IF s = t THEN 0
    ELSE IF s = <<>> THEN -1
    ELSE IF t = <<>> THEN 1
    ELSE IF weight(Head(s)) < weight(Head(t)) THEN -1
    ELSE IF weight(Head(s)) > weight(Head(t)) THEN 1
    ELSE localeCompare(Tail(s), Tail(t))

\* the sign of the comparator of copy.sort as sort reads it: bt - at if the
\* times differ (NaN, which sort reads as 0, when one of them is NaN),
\* otherwise the comparison of the titles
compareNotes(a, b) ==
    LET at == timeOf(a)
        bt == timeOf(b)
    IN  IF at.nan \/ bt.nan THEN 0
        ELSE IF bt.ms # at.ms THEN (IF bt.ms > at.ms THEN 1 ELSE -1)
        ELSE localeCompare(a.title, b.title)

\* is the comparator a consistent one for the notes ns (a total preorder)
consistentComparator(ns) ==
    \/ \A i \in 1..Len(ns) : ~timeOf(ns[i]).nan
    \/ \A i, j, k \in 1..Len(ns) :
           (compareNotes(ns[i], ns[j]) <= 0 /\ compareNotes(ns[j], ns[k]) <= 0)
               => compareNotes(ns[i], ns[k]) <= 0

\* what [...notes].sort(comparator) can be: with a consistent comparator the
\* one stable sort; otherwise the order is implementation-defined, some
\* arrangement of the same notes
sortedViews(ns) ==
    LET perms == Permutations(1..Len(ns))
        stable(p) == \A i, j \in 1..Len(ns) :
                         i < j => LET c == compareNotes(ns[p[i]], ns[p[j]])
                                  IN  c < 0 \/ (c = 0 /\ p[i] < p[j])
    IN  IF Len(ns) <= 1 THEN {ns}
        ELSE {[i \in 1..Len(ns) |-> ns[p[i]]] :
                 p \in IF consistentComparator(ns) THEN {q \in perms : stable(q)}
                       ELSE perms}

\* One render of the state a handler run leaves, followed by the effect when
\* the selectedNote object is another one than in the render before.
Render(ns, sid, st, selectedNoteChanged) ==
    LET after == IF selectedNoteChanged THEN effectState(ns, sid, st) ELSE st IN
    /\ notes' = ns
    /\ sortedNotes' \in sortedViews(ns)
    /\ selectedId' = sid
    /\ editorTitle' = after.title
    /\ editorContent' = after.content
    /\ isDirty' = after.dirty
    /\ error' = after.error
    /\ info' = after.info

-----------------------------------------------------------------------------
(* App: suspended handler runs *)

\* A handler run waiting for the API client.  keep, selId, delId and snap are
\* the values of the handler's own render that it reads after the await:
\* keepSelection and selectedId (refreshNotes), selectedNote.id and notes
\* (onDelete).  Captured values the run never reads are left at null / <<>>.
Op(kind, keep, selId, delId, snap, c) ==
    [kind |-> kind, keep |-> keep, selId |-> selId, delId |-> delId,
     snap |-> snap, call |-> c]

\* the call a handler run awaits: the function of the API client and its arguments
Call(fn, id, body) == [fn |-> fn, id |-> id, body |-> body]

\* the awaited call, settled on the outcomes of its requests
Settled(op, outcomes) ==
    RunCall(StartCall(op.call.fn, op.call.id, op.call.body), outcomes)

InFlight == BagToSet(ops)
Awaiting(fn) == {op \in InFlight : op.call.fn = fn}
Put(op) == ops (+) SetToBag({op})
Take(op) == ops (-) SetToBag({op})
Swap(old, new) == (ops (-) SetToBag({old})) (+) SetToBag({new})
CanStart == BagCardinality(ops) < MaxInFlight

Event(ev, res) == [ev |-> ev, res |-> res]
\* a list was fetched for the run op: the records of the response
Refreshed(op, list) ==
    [ev |-> op.kind, res |-> "refreshed", keep |-> op.keep, selId |-> op.selId,
     list |-> list]
\* an update was answered with a note that has an id: the normalized answer
Saved(note) == [ev |-> "save", res |-> "ok", note |-> note]
\* a delete was answered: the id it deleted and the selection it found
Deleted(op, was) == [ev |-> "delete", res |-> "ok", delId |-> op.delId, was |-> was]
\* an event of the user that no property needs to tell from another
Input == Event("user", "input")
IdleCall == [c |-> [status |-> "idle"], given |-> <<>>]

Init ==
    /\ notes = <<>>
    /\ sortedNotes = <<>>
    /\ selectedId = NullId
    /\ editorTitle = EmptyText
    /\ editorContent = EmptyText
    /\ isDirty = FALSE
    /\ isLoading = TRUE
    /\ isSaving = FALSE
    /\ isDeleting = FALSE
    /\ error = ""
    /\ info = ""
    \* the mount effect has called refreshNotes({keepSelection: true})
    /\ ops = SetToBag({Op("load", TRUE, NullId, NullId, <<>>,
                          Call("listNotes", NullId, NoBody))})
    /\ lastEvent = Event("mount", "start")
    /\ call = IdleCall

-----------------------------------------------------------------------------
(* App: user events *)

\* the Refresh button: refreshNotes({keepSelection: true}) up to its await
Refresh ==
    /\ ~disableActions
    /\ CanStart
    /\ error' = ""
    /\ ops' = Put(Op("refresh", TRUE, selectedId, NullId, <<>>,
                     Call("listNotes", NullId, NoBody)))
    /\ lastEvent' = Input
    /\ UNCHANGED <<notes, sortedNotes, selectedId, editorTitle, editorContent, isDirty,
                   isLoading, isSaving, isDeleting, info, call>>

\* onSelectNote asks before it leaves a dirty draft for another note
selectNeedsConfirm(id) ==
    isDirty /\ selectedId # NullId /\ Str(id) # Str(selectedId)

\* a click on a note of the list; ok is the user's answer if asked
onSelectNote(id, ok) ==
    /\ ~isLoading
    /\ \E i \in 1..Len(notes) : notes[i].id = id
    /\ IF selectNeedsConfirm(id) /\ ~ok
       THEN UNCHANGED <<notes, sortedNotes, selectedId, editorTitle, editorContent, isDirty,
                        error, info, lastEvent>>
       ELSE /\ Render(notes, id, editorState,
                      findIdx(notes, id) # findIdx(notes, selectedId))
            /\ lastEvent' = Input
    /\ UNCHANGED <<isLoading, isSaving, isDeleting, ops, call>>

\* onNewNote asks before it leaves a dirty draft
newNeedsConfirm == isDirty /\ selectedId # NullId

\* onNewNote up to its await of createNote
onNewNote(ok) ==
    /\ ~disableActions
    /\ CanStart
    /\ error' = ""
    /\ info' = ""
    /\ IF newNeedsConfirm /\ ~ok
       THEN /\ lastEvent' = Event("new", "declined")
            /\ UNCHANGED <<isSaving, ops>>
       ELSE /\ isSaving' = TRUE
            /\ ops' = Put(Op("new", FALSE, NullId, NullId, <<>>,
                             Call("createNote", NullId,
                                       [title |-> Untitled, content |-> EmptyText])))
            /\ lastEvent' = Input
    /\ UNCHANGED <<notes, sortedNotes, selectedId, editorTitle, editorContent, isDirty,
                   isLoading, isDeleting, call>>

\* the guard of onSave and onDelete: if (!selectedNote?.id) return
returnsEarly == ~hasSelectedNote \/ Falsy(selectedNote.id)

\* title: editorTitle.trim() || "Untitled", content: editorContent
savePayload ==
    [title |-> IF Trim(editorTitle) = EmptyText THEN Untitled ELSE Trim(editorTitle),
     content |-> editorContent]

\* onSave up to its await of updateNote; the Save buttons are enabled for a
\* selected note with a dirty draft while nothing is busy
onSave ==
    /\ hasSelectedNote /\ isDirty /\ ~disableActions
    /\ CanStart
    /\ IF returnsEarly
       THEN UNCHANGED <<error, info, isSaving, ops, lastEvent>>
       ELSE /\ error' = ""
            /\ info' = ""
            /\ isSaving' = TRUE
            /\ ops' = Put(Op("save", TRUE, selectedId, selectedNote.id, <<>>,
                             Call("updateNote", selectedNote.id, savePayload)))
            /\ lastEvent' = Input
    /\ UNCHANGED <<notes, sortedNotes, selectedId, editorTitle, editorContent, isDirty,
                   isLoading, isDeleting, call>>

\* of the notes a suspended onDelete captured it reads the ids alone
idsOf(ns) == [i \in 1..Len(ns) |-> [id |-> ns[i].id]]

\* onDelete up to its await of deleteNote; ok is the user's answer
onDelete(ok) ==
    /\ hasSelectedNote /\ ~disableActions
    /\ CanStart
    /\ IF returnsEarly
       THEN UNCHANGED <<error, info, isDeleting, ops, lastEvent>>
       ELSE /\ error' = ""
            /\ info' = ""
            /\ IF ~ok
               THEN /\ lastEvent' = Event("delete", "declined")
                    /\ UNCHANGED <<isDeleting, ops>>
               ELSE /\ isDeleting' = TRUE
                    /\ ops' = Put(Op("delete", TRUE, NullId, selectedNote.id, idsOf(notes),
                                     Call("deleteNote", selectedNote.id, NoBody)))
                    /\ lastEvent' = Input
    /\ UNCHANGED <<notes, sortedNotes, selectedId, editorTitle, editorContent, isDirty,
                   isLoading, isSaving, call>>

\* a handler that marks the draft dirty only if the text differs from the note's
onEditorTitleChangeIfDiffers(v) ==
    /\ hasSelectedNote /\ ~disableActions
    /\ editorTitle' = v
    /\ isDirty' = (isDirty \/ v # selectedNote.title)
    /\ lastEvent' = Input
    /\ UNCHANGED <<notes, sortedNotes, selectedId, editorContent, isLoading, isSaving,
                   isDeleting, error, info, ops, call>>

\* the editor's fields are shown for a selected note and disabled while busy
onEditorTitleChange(v) ==
    /\ hasSelectedNote /\ ~disableActions
    /\ editorTitle' = v
    /\ isDirty' = TRUE
    /\ lastEvent' = Input
    /\ UNCHANGED <<notes, sortedNotes, selectedId, editorContent, isLoading, isSaving,
                   isDeleting, error, info, ops, call>>

onEditorContentChange(v) ==
    /\ hasSelectedNote /\ ~disableActions
    /\ editorContent' = v
    /\ isDirty' = TRUE
    /\ lastEvent' = Input
    /\ UNCHANGED <<notes, sortedNotes, selectedId, editorTitle, isLoading, isSaving,
                   isDeleting, error, info, ops, call>>

\* the Discard button's onClick
onDiscard(ok) ==
    /\ hasSelectedNote /\ isDirty /\ ~disableActions
    /\ IF ~ok
       THEN UNCHANGED <<editorTitle, editorContent, isDirty, info, lastEvent>>
       ELSE /\ editorTitle' = selectedNote.title
            /\ editorContent' = selectedNote.content
            /\ isDirty' = FALSE
            /\ info' = "Changes discarded."
            /\ lastEvent' = Input
    /\ UNCHANGED <<notes, sortedNotes, selectedId, isLoading, isSaving, isDeleting, error,
                   ops, call>>

-----------------------------------------------------------------------------
(* App: the continuations after the await of the API client.  The requests of *)
(* one call touch no state of the component, so a call settles in one step.  *)

\* a filter that lets every record through
admittedAny(n) == TRUE

\* is a record admitted into the collection: n.id != null
admitted(n) == n.id # NullId

\* (data || []).map(normalizeNote).filter((n) => n.id != null)
normalizedList(data) ==
    SelectSeq([i \in 1..Len(data.v) |-> normalizeNote(data.v[i])], admitted)

\* a comparison of the ids as they are, type included
sameIdStrict(a, b) == a = b

\* does the kept selection compare ids by their string form
sameId(a, b) == Str(a) = Str(b)

\* the selectedId refreshNotes leaves: captured is the handler's own selectedId,
\* current the one its setSelectedId calls replace or leave
refreshedSelection(keep, captured, normalized, current) ==
    IF ~keep THEN firstIdOrNull(normalized)
    ELSE IF captured = NullId /\ Len(normalized) > 0 THEN normalized[1].id
    ELSE IF captured # NullId
         THEN IF \E i \in 1..Len(normalized) : sameId(normalized[i].id, captured)
              THEN current
              ELSE firstIdOrNull(normalized)
    ELSE current

\* what the handler that awaited refreshNotes does next
afterRefresh(kind, st) ==
    CASE kind = "new" -> [st EXCEPT !.title = Untitled, !.content = EmptyText,
                                    !.dirty = TRUE, !.info = "New note created."]
      [] kind = "save" -> [st EXCEPT !.dirty = FALSE, !.info = "Saved."]
      [] OTHER -> st

\* a catch block that also gives up the draft's dirty mark
failedStateClean(st, thrown, fallback) ==
    [st EXCEPT !.error = messageOr(thrown, fallback), !.dirty = FALSE]

\* the draft and messages a failed call leaves: setError(e?.message || fallback)
failedState(st, thrown, fallback) == [st EXCEPT !.error = messageOr(thrown, fallback)]

\* refreshNotes after listNotes settled, and the rest of the run that awaited it
\* (the mount effect, onNewNote or onSave)
refreshNotes(op, outcome) ==
    LET c == Settled(op, outcome)
        ok == c.status = "returned"
        normalized == IF ok THEN normalizedList(c.result) ELSE notes
        sid == IF ok THEN refreshedSelection(op.keep, op.selId, normalized, selectedId)
               ELSE selectedId
        \* every object of a fetched list is a new one
        changed == ok /\ (findIdx(notes, selectedId) # 0 \/ findIdx(normalized, sid) # 0)
        st == IF ok THEN editorState
              ELSE failedState(editorState, c.thrown, "Failed to load notes.")
    IN  /\ op.call.fn = "listNotes"
        /\ c.status # "pending"
        /\ Render(normalized, sid, afterRefresh(op.kind, st), changed)
        /\ isLoading' = IF op.kind = "load" THEN FALSE ELSE isLoading
        /\ isSaving' = IF op.kind \in {"new", "save"} THEN FALSE ELSE isSaving
        /\ ops' = Take(op)
        /\ lastEvent' = IF ok THEN Refreshed(op, c.result.v)
                         ELSE Event(op.kind, "refreshFailed")
        /\ UNCHANGED <<isDeleting, call>>

\* the handler calls refreshNotes: setError(""), then the await of listNotes
awaitRefresh(op, keep) ==
    /\ error' = ""
    /\ ops' = Swap(op, [op EXCEPT !.keep = keep,
                                  !.call = Call("listNotes", NullId, NoBody)])
    /\ lastEvent' = Event(op.kind, "noId")
    /\ UNCHANGED <<notes, sortedNotes, selectedId, editorTitle, editorContent, isDirty, info,
                   isLoading, isSaving, isDeleting, call>>

\* the state onNewNote sets once the created note is in the collection
createdState(st) ==
    [st EXCEPT !.title = Untitled, !.content = EmptyText, !.dirty = TRUE,
               !.info = "New note created."]

\* onNewNote after createNote settled
onNewNoteDone(op, outcome) ==
    LET c == Settled(op, outcome)
        normalized == normalizeResponse(c.result)
    IN  /\ op.call.fn = "createNote"
        /\ c.status # "pending"
        /\ IF c.status = "threw"
           THEN /\ Render(notes, selectedId,
                          failedState(editorState, c.thrown, "Failed to create note."),
                          FALSE)
                /\ isSaving' = FALSE
                /\ ops' = Take(op)
                /\ lastEvent' = Event("new", "failed")
                /\ UNCHANGED <<isLoading, isDeleting, call>>
           ELSE IF normalized.id = NullId
           THEN awaitRefresh(op, FALSE)
           ELSE \* the created object is found first: selectedNote is a new object
                /\ Render(<<normalized>> \o notes, normalized.id,
                          createdState(editorState), TRUE)
                /\ isSaving' = FALSE
                /\ ops' = Take(op)
                /\ lastEvent' = Event("new", "ok")
                /\ UNCHANGED <<isLoading, isDeleting, call>>

\* { ...n, ...normalized }
Merge(n, r) ==
    [k \in DOMAIN n \cup DOMAIN r |-> IF k \in DOMAIN r THEN r[k] ELSE n[k]]

\* a map that finds the entry by n.id === normalized.id
mergedNotesStrict(prev, normalized) ==
    [i \in 1..Len(prev) |->
        IF prev[i].id = normalized.id THEN Merge(prev[i], normalized) ELSE prev[i]]

\* prev.map((n) => (String(n.id) === String(normalized.id) ? {...n, ...normalized} : n))
mergedNotes(prev, normalized) ==
    [i \in 1..Len(prev) |->
        IF Str(prev[i].id) = Str(normalized.id) THEN Merge(prev[i], normalized)
        ELSE prev[i]]

\* the state onSave sets after a successful update
savedState(st) == [st EXCEPT !.dirty = FALSE, !.info = "Saved."]

\* onSave after updateNote settled
onSaveDone(op, outcome) ==
    LET c == Settled(op, outcome)
        normalized == normalizeResponse(c.result)
        k == findIdx(notes, selectedId)
        \* a merged entry is a new object
        changed == k # 0 /\ Str(notes[k].id) = Str(normalized.id)
    IN  /\ op.call.fn = "updateNote"
        /\ c.status # "pending"
        /\ IF c.status = "threw"
           THEN /\ Render(notes, selectedId,
                          failedState(editorState, c.thrown, "Failed to save note."),
                          FALSE)
                /\ isSaving' = FALSE
                /\ ops' = Take(op)
                /\ lastEvent' = Event("save", "failed")
                /\ UNCHANGED <<isLoading, isDeleting, call>>
           ELSE IF normalized.id = NullId
           THEN awaitRefresh(op, TRUE)
           ELSE /\ Render(mergedNotes(notes, normalized), selectedId,
                          savedState(editorState), changed)
                /\ isSaving' = FALSE
                /\ ops' = Take(op)
                /\ lastEvent' = Saved(normalized)
                /\ UNCHANGED <<isLoading, isDeleting, call>>

\* filter((n) => String(n.id) !== String(selectedNote.id))
without(ns, id) == SelectSeq(ns, LAMBDA n : Str(n.id) # Str(id))

\* setSelectedId(remaining[0]?.id ?? null): a plain update in place of the
\* functional one
selectionAfterDeleteAlwaysMoves(prevSelected, deleted, snap) ==
    firstIdOrNull(without(snap, deleted))

\* setSelectedId((prevSelected) => ...): remaining is computed from the notes
\* of the handler's own render
selectionAfterDelete(prevSelected, deleted, snap) ==
    IF Str(prevSelected) # Str(deleted) THEN prevSelected
    ELSE firstIdOrNull(without(snap, deleted))

\* the state onDelete sets after a successful delete
deletedState(st) == [st EXCEPT !.dirty = FALSE, !.info = "Deleted."]

\* position in ns of the j-th note of without(ns, id); 0 for j = 0
keptIndex(ns, id, j) ==
    LET kept == {i \in 1..Len(ns) : Str(ns[i].id) # Str(id)} IN
    IF j = 0 THEN 0
    ELSE CHOOSE i \in kept : Cardinality({m \in kept : m <= i}) = j

\* an onDelete that sets isDeleting back at the end of its try block only
onDeleteDoneWithoutFinally(op, outcome) ==
    LET c == Settled(op, outcome)
        ns == without(notes, op.delId)
        sid == selectionAfterDelete(selectedId, op.delId, op.snap)
        changed == keptIndex(notes, op.delId, findIdx(ns, sid)) # findIdx(notes, selectedId)
    IN  /\ op.call.fn = "deleteNote"
        /\ c.status # "pending"
        /\ IF c.status = "threw"
           THEN /\ Render(notes, selectedId,
                          failedState(editorState, c.thrown, "Failed to delete note."),
                          FALSE)
                /\ lastEvent' = Event("delete", "failed")
                /\ isDeleting' = isDeleting
           ELSE /\ Render(ns, sid, deletedState(editorState), changed)
                /\ lastEvent' = Deleted(op, selectedId)
                /\ isDeleting' = FALSE
        /\ ops' = Take(op)
        /\ UNCHANGED <<isLoading, isSaving, call>>

\* onDelete after deleteNote settled
onDeleteDone(op, outcome) ==
    LET c == Settled(op, outcome)
        ns == without(notes, op.delId)
        sid == selectionAfterDelete(selectedId, op.delId, op.snap)
        \* the kept notes are the same objects: compare their places in notes
        changed == keptIndex(notes, op.delId, findIdx(ns, sid)) # findIdx(notes, selectedId)
    IN  /\ op.call.fn = "deleteNote"
        /\ c.status # "pending"
        /\ IF c.status = "threw"
           THEN /\ Render(notes, selectedId,
                          failedState(editorState, c.thrown, "Failed to delete note."),
                          FALSE)
                /\ lastEvent' = Event("delete", "failed")
           ELSE /\ Render(ns, sid, deletedState(editorState), changed)
                /\ lastEvent' = Deleted(op, selectedId)
        /\ isDeleting' = FALSE
        /\ ops' = Take(op)
        /\ UNCHANGED <<isLoading, isSaving, call>>

-----------------------------------------------------------------------------
(* The controller with its API client *)

Next ==
    \/ Refresh
    \/ \E id \in Ids, ok \in BOOLEAN : onSelectNote(id, ok)
    \/ \E ok \in BOOLEAN : onNewNote(ok)
    \/ onSave
    \/ \E ok \in BOOLEAN : onDelete(ok)
    \/ \E v \in TypedTitles : onEditorTitleChange(v)
    \/ \E v \in TypedContents : onEditorContentChange(v)
    \/ \E ok \in BOOLEAN : onDiscard(ok)
    \/ \E op \in Awaiting("listNotes") : \E o \in OutcomesFor(op.call, notes) : refreshNotes(op, o)
    \/ \E op \in Awaiting("createNote") : \E o \in OutcomesFor(op.call, notes) : onNewNoteDone(op, o)
    \/ \E op \in Awaiting("updateNote") : \E o \in OutcomesFor(op.call, notes) : onSaveDone(op, o)
    \/ \E op \in Awaiting("deleteNote") : \E o \in OutcomesFor(op.call, notes) : onDeleteDone(op, o)

Spec == Init /\ [][Next]_vars

-----------------------------------------------------------------------------
(* The controller when no request stays unanswered forever *)

\* What a settling call does to the suspended runs: the run that awaited it
\* ends, or goes on to await the list request of refreshNotes.  Among the steps
\* of Next these are the steps of refreshNotes, onNewNoteDone, onSaveDone and
\* onDeleteDone, and one is possible exactly while a run is suspended.
Settle ==
    \E op \in InFlight :
        \/ ops' = Take(op)
        \/ \E keep \in BOOLEAN :
               ops' = Swap(op, [op EXCEPT !.keep = keep,
                                          !.call = Call("listNotes", NullId, NoBody)])

\* every request is answered, fails or is aborted at DEFAULT_TIMEOUT_MS, so a
\* suspended run does not wait forever
LiveSpec == Spec /\ WF_ops(Settle)

-----------------------------------------------------------------------------
(* The API client on its own: one call at a time, request by request *)

ApiFunctions == {"listNotes", "createNote", "updateNote", "deleteNote"}

ApiBodies == {[title |-> Untitled, content |-> EmptyText]}

\* what a request can meet: rejections, error statuses with and without a
\* body, and successes of every shape
ApiOutcomes ==
    { Reject("Failed to fetch"), Reject("The operation was aborted."),
      Http(404, TRUE, JObj([message |-> <<"x">>])),
      Http(500, FALSE, JText(<<>>)),
      NoContent,
      Http(200, TRUE, JArr(<<[id |-> NumId("1")], RawWithoutId>>)),
      Http(200, TRUE, JObj([notes |-> <<[id |-> NumId("1")]>>])),
      Http(200, TRUE, JObj([id |-> NumId("1"), title |-> Untitled])),
      Http(200, TRUE, JNull),
      Http(200, TRUE, JText(<<"<">>)),
      Http(200, TRUE, JText(<<>>)),
      Http(200, FALSE, JText(<<"o", "k">>)),
      Http(200, FALSE, JText(<<>>)) }

ApiStart(fn, id, body) ==
    /\ call.c.status # "pending"
    /\ call' = [c |-> StartCall(fn, id, body), given |-> <<>>]
    /\ UNCHANGED ctl

\* the network answers the request of the current candidate
ApiRespond(outcome) ==
    /\ call.c.status = "pending"
    /\ call' = [c |-> CallStep(call.c, outcome), given |-> Append(call.given, outcome)]
    /\ UNCHANGED ctl

ApiNext ==
    \/ \E fn \in ApiFunctions, id \in Ids, body \in ApiBodies : ApiStart(fn, id, body)
    \/ \E o \in ApiOutcomes : ApiRespond(o)

ApiSpec == Init /\ [][ApiNext]_vars

-----------------------------------------------------------------------------
(* The sorted view on its own: the initial load answered with lists whose    *)
(* records differ in their timestamps and titles                             *)

\* longest list of these loads
MaxSorted == 3

SortIdNames == <<"0", "1", "2", "3", "4">>

\* title and timestamps of a record: updatedAt absent, a date or unparseable,
\* createdAt absent or a later date
SortKinds ==
    {[title |-> t, updatedAt |-> u, createdAt |-> c] :
        t \in {<<"a">>, <<"B">>}, u \in {NullTs, Ts(1), BadTs}, c \in {NullTs, Ts(2)}}

SortLists ==
    UNION {{[i \in 1..k |-> [id |-> NumId(SortIdNames[i]), title |-> f[i].title,
                             updatedAt |-> f[i].updatedAt, createdAt |-> f[i].createdAt]] :
               f \in [1..k -> SortKinds]} : k \in 0..MaxSorted}

\* the list request of a suspended refreshNotes is answered with the list l
SortLoad(l) ==
    \E op \in Awaiting("listNotes") : refreshNotes(op, <<Http(200, TRUE, JArr(l))>>)

SortNext == \E l \in SortLists : SortLoad(l)

SortSpec == Init /\ [][SortNext]_vars

-----------------------------------------------------------------------------
(* Properties of the API client (ApiSpec) *)

\* did the request that met outcome o fail
failedAttempt(o) == request(o).threw

\* C8: every call tries "/notes" first and "/api/notes" second, each at most
\* once; the second request is sent if and only if the first failed; a request
\* that succeeds ends the call with the value of that request; and when both
\* fail the call throws the error of the second.
C8_CandidateOrder ==
    call.c.status # "idle" =>
        LET c == call.c
            g == call.given
            n == Len(c.attempts)
        IN  /\ n \in 1..2
            /\ \A k \in 1..n : c.attempts[k] = RequestOf(c.fn, c.id, c.body, k)
            /\ c.attempts[1].base = "/notes"
            /\ n = 2 => c.attempts[2].base = "/api/notes"
            /\ Len(g) \in {n - 1, n}
            /\ (n = 2) <=> (Len(g) >= 1 /\ failedAttempt(g[1]))
            /\ (c.status = "pending") <=> (Len(g) = n - 1)
            /\ (c.status = "returned") <=> (Len(g) = n /\ ~failedAttempt(g[n]))
            /\ c.status = "returned" =>
                   c.result = callResult(c.fn, request(g[n]).value)
            /\ (c.status = "threw") <=>
                   (Len(g) = 2 /\ failedAttempt(g[1]) /\ failedAttempt(g[2]))
            /\ c.status = "threw" => c.thrown = request(g[2]).msg

\* both candidates failed, each with its own error, and the second is thrown
C8_BothFailed ==
    /\ call.c.status = "threw"
    /\ Len(call.given) = 2
    /\ request(call.given[1]).msg # request(call.given[2]).msg
    /\ call.c.thrown = request(call.given[2]).msg

-----------------------------------------------------------------------------
(* Properties of the controller (Spec) *)

\* the step just taken: the handler run of kind ev ended as res
Happened(ev, res) == lastEvent.ev = ev /\ lastEvent.res = res

\* the operation's own API call failed on every candidate: updateNote of Save,
\* deleteNote of Delete, createNote of CreateNew, listNotes of a Refresh or of
\* the initial load
ownCallFailed ==
    \/ lastEvent.res = "failed"
    \/ lastEvent.res = "refreshFailed" /\ lastEvent.ev \in {"load", "refresh"}

\* a handler run went to its await
started == BagCardinality(ops') > BagCardinality(ops)

\* C1: an operation whose API call fails on every candidate path mutates
\* nothing: neither the step that starts it nor the step in which the failure
\* arrives changes the collection, the selection, the draft fields or the dirty
\* flag (a dirty draft stays dirty), and the failure leaves an error message.
C1_NoPartialMutation ==
    [][ /\ started =>
            UNCHANGED <<notes, selectedId, editorTitle, editorContent, isDirty>>
        /\ ownCallFailed' =>
            /\ UNCHANGED <<notes, selectedId, editorTitle, editorContent, isDirty>>
            /\ error' # "" ]_vars

\* a Save has failed on a dirty draft, which is still dirty
C1_FailedSaveStillDirty ==
    /\ Happened("save", "failed")
    /\ hasSelectedNote /\ isDirty /\ ~isSaving
    /\ error # ""

\* C2: the step of a successful Save whose response has an id leaves a
\* collection of the same length and order in which the entry whose id has the
\* string form of the response's id is its prior fields overwritten by the
\* normalized response, every other entry is what it was, and dirty is false.
C2_SaveMergesResponse ==
    [][ Happened("save", "ok")' =>
            LET r == lastEvent'.note IN
            /\ Len(notes') = Len(notes)
            /\ \A i \in 1..Len(notes) :
                   IF Str(notes[i].id) = Str(r.id)
                   THEN /\ DOMAIN notes'[i] = DOMAIN notes[i] \cup DOMAIN r
                        /\ \A k \in DOMAIN notes'[i] :
                               notes'[i][k] = IF k \in DOMAIN r THEN r[k] ELSE notes[i][k]
                   ELSE notes'[i] = notes[i]
            /\ isDirty' = FALSE ]_vars

\* a Save was answered with the id in its other type: the entry found by the
\* string form now is the response
C2_MergedByStringForm ==
    /\ Happened("save", "ok")
    /\ ~isDirty
    /\ \E i \in 1..Len(notes) :
           /\ notes[i] = lastEvent.note
           /\ Str(notes[i].id) = Str(selectedId)
           /\ notes[i].id # selectedId

\* the collection without its k-th note
dropAt(ns, k) == [i \in 1..(Len(ns) - 1) |-> IF i < k THEN ns[i] ELSE ns[i + 1]]

\* C3: the step of a successful Delete whose note is the selected one removes
\* exactly that note from the collection, selects the first note that remains
\* in the collection's own order, none if the collection has become empty, and
\* leaves dirty false.
C3_DeleteMovesSelection ==
    [][ ( /\ Happened("delete", "ok")'
          /\ hasSelectedNote
          /\ \E op \in InFlight : /\ op.kind = "delete"
                                  /\ ops' = Take(op)
                                  /\ Str(op.delId) = Str(selectedId) )
        => /\ notes' = dropAt(notes, findIdx(notes, selectedId))
           /\ selectedId' = IF notes' = <<>> THEN NullId ELSE notes'[1].id
           /\ isDirty' = FALSE ]_vars

\* C4: in the state a successful CreateNew with an id leaves to the user, the
\* created note is the first of the collection and selected, the draft is
\* "Untitled" with empty content, and dirty is true.
C4_CreatedNoteIsDraft ==
    Happened("new", "ok") =>
        /\ notes # <<>>
        /\ notes[1].id = selectedId
        /\ editorTitle = Untitled
        /\ editorContent = EmptyText
        /\ isDirty

\* C5: a step in which the user declines the confirmation changes neither the
\* collection, the selection, the draft fields, the dirty flag nor the status
\* messages, and sends no request.  (A declined Select or Discard changes no
\* variable at all; a declined CreateNew or Delete is the step recorded as
\* "declined".)
C5_DeclineIsNoOp ==
    [][ (lastEvent'.res = "declined") =>
            UNCHANGED <<notes, selectedId, editorTitle, editorContent, isDirty,
                        error, info, ops>> ]_vars

\* the notes of a fetched list that have an id, in fetched order
fetchedWithId(list) ==
    SelectSeq([i \in 1..Len(list) |-> normalizeNote(list[i])],
              LAMBDA n : n.id # NullId)

\* C6: the step of a successful Refresh replaces the collection by the fetched
\* notes that have an id, in fetched order.  Without keepSelection the first
\* fetched note, or none, is selected.  With keepSelection: if nothing was
\* selected when the Refresh was called, the first fetched note is selected if
\* there is one; if the note selected then is in the new collection by the
\* string form of its id, the selection is left as it is; otherwise the first
\* fetched note, or none, is selected.
C6_RefreshSelection ==
    [][ (lastEvent'.res = "refreshed") =>
            LET e == lastEvent'
                fetched == fetchedWithId(e.list)
                first == IF fetched = <<>> THEN NullId ELSE fetched[1].id
                stillExists == \E i \in 1..Len(fetched) : Str(fetched[i].id) = Str(e.selId)
            IN  /\ notes' = fetched
                /\ selectedId' =
                       IF ~e.keep THEN first
                       ELSE IF e.selId = NullId
                            THEN IF fetched # <<>> THEN first ELSE selectedId
                       ELSE IF stillExists THEN selectedId
                       ELSE first ]_vars

\* a Refresh kept a selection whose id has another type than the fetched one
C6_KeptByStringForm ==
    /\ lastEvent.res = "refreshed"
    /\ lastEvent.keep
    /\ lastEvent.selId = selectedId
    /\ hasSelectedNote
    /\ selectedNote.id # selectedId
    /\ Len(notes) = 2

\* C7: at most one operation is in flight, and while one is the busy flag is
\* true (so that New, Save, Delete and Refresh cannot be started).
C7_OneOperationInFlight ==
    /\ BagCardinality(ops) <= 1
    /\ BagCardinality(ops) = 1 => disableActions

\* the update Save is to send for the selected note and the draft
expectedUpdate ==
    Call("updateNote", selectedNote.id,
         [title |-> IF Trim(editorTitle) = <<>> THEN Untitled ELSE Trim(editorTitle),
          content |-> editorContent])

\* a click on Save that sends the expected update and nothing else
saveSendsUpdate ==
    /\ onSave
    /\ BagCardinality(ops') = BagCardinality(ops) + 1
    /\ \E op \in BagToSet(ops') : ops' = Put(op) /\ op.call = expectedUpdate

\* C9: with no note selected Save can do nothing; with a note of the
\* collection selected, whatever its id, a click on Save sends an update for
\* that id with the trimmed draft title ("Untitled" if that is empty) and the
\* draft content as it is.
C9_SaveSendsUpdate ==
    /\ ~hasSelectedNote => ~ENABLED onSave
    /\ (hasSelectedNote /\ isDirty /\ ~disableActions /\ CanStart) =>
           ENABLED saveSendsUpdate

\* C10: every note of the collection has an id that is not null.
C10_AdmittedNotesHaveId ==
    \A i \in 1..Len(notes) : notes[i].id # NullId

\* a fetched list had a record with no id alias, and the collection is the
\* rest of that list
C10_RecordWithoutIdDropped ==
    /\ lastEvent.res = "refreshed"
    /\ \E i \in 1..Len(lastEvent.list) : FirstId(lastEvent.list[i]) = NullId
    /\ notes # <<>>
    /\ Len(notes) < Len(lastEvent.list)

\* no handler run is suspended
settled == BagCardinality(ops) = 0

\* C11: in a state with no operation in flight and no note of the collection
\* selected, the draft title and content are empty and dirty is false; and a
\* step after which another note is the selected one leaves the draft at that
\* note's title and content with dirty false.
C11_DraftFollowsSelection ==
    [][ /\ (settled' /\ ~hasSelectedNote') =>
               (editorTitle' = EmptyText /\ editorContent' = EmptyText /\ ~isDirty')
        /\ (hasSelectedNote' /\ (~hasSelectedNote \/ selectedNote' # selectedNote)) =>
               /\ editorTitle' = selectedNote'.title
               /\ editorContent' = selectedNote'.content
               /\ ~isDirty' ]_vars

\* the timestamp a note is to be ordered by: updatedAt, else createdAt, else 0
effectiveTs(n) ==
    IF n.updatedAt # NullTs THEN n.updatedAt
    ELSE IF n.createdAt # NullTs THEN n.createdAt ELSE Ts(0)

\* do two sequences hold the same notes, each as often
sameNotes(a, b) ==
    /\ Len(a) = Len(b)
    /\ \A i \in 1..Len(a) :
           Cardinality({j \in 1..Len(a) : a[j] = a[i]})
               = Cardinality({j \in 1..Len(b) : b[j] = a[i]})

\* C12: the sorted view holds the notes of the collection, and of two notes
\* of the view whose effective timestamps are dates the earlier one in the
\* view has the later timestamp, or the same timestamp and a title that does
\* not come after the other's.
C12_SortedView ==
    /\ sameNotes(sortedNotes, notes)
    /\ \A i, j \in 1..Len(sortedNotes) :
           (i < j /\ effectiveTs(sortedNotes[i]).kind = "num"
                  /\ effectiveTs(sortedNotes[j]).kind = "num")
           => \/ effectiveTs(sortedNotes[i]).ms > effectiveTs(sortedNotes[j]).ms
              \/ /\ effectiveTs(sortedNotes[i]).ms = effectiveTs(sortedNotes[j]).ms
                 /\ localeCompare(sortedNotes[i].title, sortedNotes[j].title) <= 0

\* a request that failed in transport (fetch rejected, timed out) or with an
\* HTTP error status
httpFailed(o) ==
    o.net = "reject" \/ o.resp.status < 200 \/ o.resp.status > 299

\* C13: listNotes throws only when both candidates failed in transport or
\* with an HTTP error status; a response with a success status ends the call,
\* which returns the array itself for a bare array, the array of `notes` for
\* an object that has one, and the empty list for every other result (object
\* without notes, null of a 204 or an empty body, wrapped text).
C13_ListShapes ==
    (call.c.status # "idle" /\ call.c.fn = "listNotes") =>
        LET c == call.c
            g == call.given
        IN  /\ c.status = "threw" => \A k \in 1..Len(g) : httpFailed(g[k])
            /\ \A k \in 1..Len(g) :
                   ~httpFailed(g[k]) =>
                       /\ c.status = "returned"
                       /\ k = Len(g)
                       /\ LET body == g[k].resp.body IN
                          c.result =
                              IF body.t = "arr" THEN body
                              ELSE IF body.t = "obj" /\ "notes" \in DOMAIN body.v
                                   THEN JArr(body.v.notes)
                              ELSE JArr(<<>>)

\* C14: a step of EditTitle with the text v leaves the draft title v and dirty
\* true, also when v is the selected note's own title, and changes neither the
\* collection, the selection nor the draft content; EditContent does the same
\* for the draft content and leaves the draft title.
C14_EditMarksDirty ==
    [][ /\ \A v \in TypedTitles :
               onEditorTitleChange(v) =>
                   /\ editorTitle' = v
                   /\ isDirty'
                   /\ UNCHANGED <<notes, selectedId, editorContent>>
        /\ \A v \in TypedContents :
               onEditorContentChange(v) =>
                   /\ editorContent' = v
                   /\ isDirty'
                   /\ UNCHANGED <<notes, selectedId, editorTitle>> ]_vars

\* the draft is dirty although it is the selected note's title and content:
\* the title was typed as it is stored
C14_DirtyWithSavedText ==
    /\ hasSelectedNote /\ isDirty /\ settled
    /\ lastEvent = Input
    /\ editorTitle = selectedNote.title
    /\ editorContent = selectedNote.content

\* C15: the step of a successful Refresh with keepSelection leaves the
\* selection as it is whenever the note selected at that moment is among the
\* fetched notes, whatever was selected when the Refresh was called.
C15_CurrentSelectionKept ==
    [][ ( /\ lastEvent'.res = "refreshed"
          /\ lastEvent'.keep
          /\ selectedId # NullId
          /\ \E i \in 1..Len(notes') : Str(notes'[i].id) = Str(selectedId) )
        => selectedId' = selectedId ]_vars

\* is an initial load, create, save or delete suspended
busyRunning == \E op \in InFlight : op.kind \in {"load", "new", "save", "delete"}

\* C16: when no request stays unanswered forever, every initial load, create,
\* save and delete that has started settles and the busy flag it set
\* (isLoading, isSaving, isDeleting) becomes false again: the controls do not
\* stay disabled.
C16_BusyEnds ==
    (busyRunning \/ disableActions) ~> (~busyRunning /\ ~disableActions)

\* a Delete has failed and the controls are enabled again
C16_IdleAfterFailedDelete ==
    /\ Happened("delete", "failed")
    /\ settled
    /\ ~disableActions

\* C17: with no operation in flight, selectedId is null or the id, by its
\* string form, of a note of the collection.
C17_SelectionInCollection ==
    settled => (selectedId = NullId \/ hasSelectedNote)

\* C18: with no operation in flight, a note selected and dirty false, the
\* draft title and content are the selected note's title and content.
C18_CleanDraftIsStoredNote ==
    (settled /\ hasSelectedNote /\ ~isDirty) =>
        /\ editorTitle = selectedNote.title
        /\ editorContent = selectedNote.content

\* a step that may give up a dirty draft: a handler of the user (the confirmed
\* Discard, switch or CreateNew), a Save that succeeded, a Delete that succeeded
givesUpDraft ==
    \/ lastEvent' = Input
    \/ lastEvent'.ev = "save" /\ lastEvent'.res \in {"ok", "refreshed"}
    \/ lastEvent'.ev = "delete" /\ lastEvent'.res = "ok"

\* C19: dirty goes from true to false only by a successful Save, a successful
\* Delete or a confirmed Discard, switch or CreateNew; a Refresh never clears it.
C19_DirtyDraftKept == [][(isDirty /\ ~isDirty') => givesUpDraft]_vars

\* the draft onNewNote writes for a created note
defaultDraft == editorTitle = Untitled /\ editorContent = EmptyText /\ isDirty

\* a step in which a CreateNew run ended after its createNote call succeeded
createEnded ==
    /\ lastEvent'.ev = "new"
    /\ lastEvent'.res \in {"ok", "refreshed", "refreshFailed"}
    /\ BagCardinality(ops') < BagCardinality(ops)

\* C20: the end of a CreateNew never leaves the default draft ("Untitled",
\* empty content, dirty) in the editor while the selected note is one the
\* collection already held.
C20_DefaultDraftOnlyForCreated ==
    [][createEnded => ~(defaultDraft' /\ hasSelectedNote'
                         /\ findIdx(notes, selectedId') # 0)]_vars

\* a Delete succeeded after the user had selected another note than the one
\* it deleted
deletedWhileElsewhere ==
    /\ Happened("delete", "ok")
    /\ lastEvent.was # NullId
    /\ Str(lastEvent.was) # Str(lastEvent.delId)

\* C21: when the Delete of note A succeeds after the user has selected another
\* note B, A is no longer in the collection and the selection is still B.
C21_SelectionElsewhereKept ==
    deletedWhileElsewhere =>
        /\ selectedId = lastEvent.was
        /\ \A i \in 1..Len(notes) : Str(notes[i].id) # Str(lastEvent.delId)

\* a Delete of A ended with B, selected during the call, still selected and
\* in the collection
C21_SwitchedDuringDelete == deletedWhileElsewhere /\ hasSelectedNote

====
